---- MODULE Spec2Model ----
(***************************************************************************)
(* Team lookup and challenge-sequence resolution of the treasure hunt      *)
(* server (src/main.go): findTeamPage, getTeamChallenges,                  *)
(* findNextChallengeURL, parseFloat and the handler handleNextChallenge.   *)
(*                                                                         *)
(* Representation.                                                         *)
(*  - Text that the code takes apart character by character (property      *)
(*    names scanned by Sscanf, numeric id strings, page ids that lose      *)
(*    their hyphens, URLs) is a sequence of one-character strings.         *)
(*    Team names and text segments are only compared, and are strings.     *)
(*  - A float64 that is a multiple of one half is the integer count of     *)
(*    its halves: 7.0 is 14, 2.5 is 5.  (Other floats are not modelled.)   *)
(*  - A store record is [ID, Properties]; Properties is a function from    *)
(*    property names to values [type, text, relation, number].             *)
(*  - A query result is [isNil, Results]; the client returns a nil result  *)
(*    together with an error.                                              *)
(***************************************************************************)
EXTENDS Integers, Sequences, FiniteSets, TLC

VARIABLES
    teamsDB,            \* the Team collection, in store order
    challengeDB,        \* the Challenge collection, in store order
    teamName,           \* form value "team"
    currentChallengeID, \* URL parameter "id"
    pc,                 \* position of the request in the code
    storeLog,           \* every store call issued so far, with its outcome
    faultsLeft,         \* store calls that may still fail in this request
    tier,               \* index into propertyNames of the next filter query
    teamPageID,         \* findTeamPage: returned identifier (<<>> when none)
    findErr,            \* findTeamPage: returned error is non-nil
    todo,               \* getTeamChallenges: properties not yet ranged over
    challenges,         \* getTeamChallenges: map[int]string
    extractErr,         \* getTeamChallenges: returned error is non-nil
    visited,            \* findNextChallengeURL: map keys already ranged over
    currentPos,         \* findNextChallengeURL: currentPos
    nextID,             \* findNextChallengeURL: nextID (<<>> when none)
    filterValue,        \* findNextChallengeURL: last filter value (halves)
    result,             \* findNextChallengeURL: result of the last query
    panicked,           \* a nil result was dereferenced
    url,                \* findNextChallengeURL: returned string
    outcome             \* template rendered by handleNextChallenge

vars == <<teamsDB, challengeDB, teamName, currentChallengeID, pc, storeLog,
          faultsLeft, tier, teamPageID, findErr, todo, challenges, extractErr, visited,
          currentPos, nextID, filterValue, result, panicked, url, outcome>>

storeVars == <<teamsDB, challengeDB, teamName, currentChallengeID>>
findVars == <<tier, teamPageID, findErr>>
extractVars == <<todo, challenges, extractErr>>
nextVars == <<visited, currentPos, nextID, filterValue, result, panicked, url>>

(***************************************************************************)
(* Bounds of the model.                                                    *)
(***************************************************************************)
MaxTeams == 2
MaxChallenges == 2
MaxPos == 3
MaxNum == 12

(***************************************************************************)
(* Values of the store.                                                    *)
(***************************************************************************)
NoText == <<>>
NoRelation == <<>>

TitleProperty(segments) ==
    [type |-> "title", text |-> segments, relation |-> NoRelation, number |-> 0]
RichTextProperty(segments) ==
    [type |-> "rich_text", text |-> segments, relation |-> NoRelation, number |-> 0]
RelationProperty(ids) ==
    [type |-> "relation", text |-> NoText, relation |-> ids, number |-> 0]
NumberProperty(n) ==
    [type |-> "number", text |-> NoText, relation |-> NoRelation, number |-> n]

Page(id, props) == [ID |-> id, Properties |-> props]

NilResult == [isNil |-> TRUE, Results |-> <<>>]
QueryResult(pages) == [isNil |-> FALSE, Results |-> pages]

Min(a, b) == IF a < b THEN a ELSE b
Range(s) == {s[i] : i \in 1..Len(s)}
IDs(pages) == [i \in 1..Len(pages) |-> pages[i].ID]

(***************************************************************************)
(* Property names.                                                         *)
(***************************************************************************)
NameProp == <<"N", "a", "m", "e">>
TeamProp == <<"T", "e", "a", "m">>
TitleProp == <<"T", "i", "t", "l", "e">>
titleProp == <<"t", "i", "t", "l", "e">>
LabelProp == <<"L", "a", "b", "e", "l">>
NotesProp == <<"N", "o", "t", "e", "s">>
idProp == <<"i", "d">>
IDProp == <<"I", "D">>
ChallengePrefix == <<"C", "h", "a", "l", "l", "e", "n", "g", "e">>

\* The call log: one entry per store call.
LogQuery(db, prop, ok, pages) ==
    [call |-> "Query", db |-> db, prop |-> prop, ok |-> ok, ids |-> IDs(pages)]
LogGet(db, id, ok) ==
    [call |-> "Get", db |-> db, prop |-> <<>>, ok |-> ok, ids |-> <<id>>]
NoFilter == <<>>

(***************************************************************************)
(* The store's query contract.                                             *)
(***************************************************************************)
\* The text of a title or rich-text value as the filter compares it.
PlainText(v) == IF Len(v.text) > 0 THEN v.text[1] ELSE ""

TextEquals(page, prop, name) ==
    /\ prop \in DOMAIN page.Properties
    /\ page.Properties[prop].type \in {"title", "rich_text"}
    /\ PlainText(page.Properties[prop]) = name

\* Equality filter on a text property: the matching records in store order.
FilterText(db, prop, name) ==
    LET Hit(page) == TextEquals(page, prop, name) IN SelectSeq(db, Hit)

NumberEquals(page, prop, f) ==
    /\ prop \in DOMAIN page.Properties
    /\ page.Properties[prop].type = "number"
    /\ page.Properties[prop].number = f

\* Equality filter on a number property.
FilterNumber(db, prop, f) ==
    LET Hit(page) == NumberEquals(page, prop, f) IN SelectSeq(db, Hit)

\* Unfiltered query: the first pageSize records.
FirstPage(db, pageSize) == SubSeq(db, 1, Min(Len(db), pageSize))

\* A store call succeeds or fails; the store fails while faults are left.
Outcomes == IF faultsLeft > 0 THEN BOOLEAN ELSE {TRUE}
Spend(ok) == IF ok THEN faultsLeft ELSE faultsLeft - 1

\* Page.Get: the record with this identifier, if the store holds one.
HasPage(db, id) == \E i \in 1..Len(db) : db[i].ID = id
GetPage(db, id) == db[CHOOSE i \in 1..Len(db) : db[i].ID = id]

(***************************************************************************)
(* findTeamPage                                                            *)
(***************************************************************************)
PageSize == 100

\* Mutant: the first two property names probed in the other order.
propertyNames_Swapped == <<TeamProp, NameProp, TitleProp, titleProp>>

propertyNames == <<NameProp, TeamProp, TitleProp, titleProp>>

\* The filter query ends the lookup: no error and at least one record.
TierHit(ok, pages) == ok /\ Len(pages) > 0

\* Mutant: the manual search looks at title properties only.
PropMatches_TitleOnly(p, name) ==
    p.type = "title" /\ Len(p.text) > 0 /\ p.text[1] = name

\* One property of one page of the full scan matches the team name.
PropMatches(p, name) ==
    \/ p.type = "title" /\ Len(p.text) > 0 /\ p.text[1] = name
    \/ p.type = "rich_text" /\ Len(p.text) > 0 /\ p.text[1] = name

PageMatches(page, name) ==
    \E n \in DOMAIN page.Properties : PropMatches(page.Properties[n], name)

\* The manual search: the first page, in result order, with a matching property.
ScanTeams(pages, name) ==
    IF \E i \in 1..Len(pages) : PageMatches(pages[i], name)
    THEN pages[CHOOSE i \in 1..Len(pages) :
                 /\ PageMatches(pages[i], name)
                 /\ \A j \in 1..(i - 1) : ~PageMatches(pages[j], name)].ID
    ELSE <<>>

\* One iteration of the loop over propertyNames: one filter query.
QueryTeamFilter ==
    /\ pc = "findTeamPage"
    /\ tier <= Len(propertyNames)
    /\ \E ok \in Outcomes :
         LET prop == propertyNames[tier]
             pages == IF ok THEN FilterText(teamsDB, prop, teamName) ELSE <<>>
         IN /\ storeLog' = Append(storeLog, LogQuery("teams", prop, ok, pages))
            /\ faultsLeft' = Spend(ok)
            /\ IF TierHit(ok, pages)
               THEN /\ teamPageID' = pages[1].ID
                    /\ findErr' = FALSE
                    /\ pc' = "teamReturned"
                    /\ tier' = tier
               ELSE /\ tier' = tier + 1
                    /\ UNCHANGED <<teamPageID, findErr, pc>>
    /\ UNCHANGED <<storeVars, extractVars, nextVars, outcome>>

\* Mutant: the error of the unfiltered query is dropped.
ScanError_Swallowed(ok) == FALSE

\* if err != nil { return "", err } after the unfiltered query.
ScanError(ok) == ~ok

\* The last attempt: all teams without a filter, searched by hand.
QueryAllTeams ==
    /\ pc = "findTeamPage"
    /\ tier > Len(propertyNames)
    /\ \E ok \in Outcomes :
         LET pages == IF ok THEN FirstPage(teamsDB, PageSize) ELSE <<>>
         IN /\ storeLog' = Append(storeLog, LogQuery("teams", NoFilter, ok, pages))
            /\ faultsLeft' = Spend(ok)
            /\ findErr' = ScanError(ok)
            /\ teamPageID' = IF ok THEN ScanTeams(pages, teamName) ELSE <<>>
    /\ pc' = "teamReturned"
    /\ UNCHANGED <<storeVars, tier, extractVars, nextVars, outcome>>

(***************************************************************************)
(* Conversions between numbers and text.                                   *)
(***************************************************************************)
DigitChars == <<"0", "1", "2", "3", "4", "5", "6", "7", "8", "9">>
IsDigit(c) == c \in Range(DigitChars)
DigitValue(c) == (CHOOSE d \in 1..10 : DigitChars[d] = c) - 1

RECURSIVE Digits(_)
\* The decimal digits of a natural number, most significant first.
Digits(n) ==
    IF n < 10 THEN <<DigitChars[n + 1]>>
    ELSE Digits(n \div 10) \o <<DigitChars[(n % 10) + 1]>>

\* Halves rounded to a whole number, ties to even, as strconv rounds.
RoundHalfEven(a) ==
    LET q == a \div 2
    IN IF a % 2 = 0 THEN q ELSE IF q % 2 = 0 THEN q ELSE q + 1

\* Mutant: one decimal place is printed, as "%.1f" does.
FormatF0_OneDecimal(h) ==
    LET a == IF h < 0 THEN -h ELSE h
    IN (IF h < 0 THEN <<"-">> ELSE <<>>) \o Digits(a \div 2)
           \o <<".", IF a % 2 = 0 THEN "0" ELSE "5">>

\* fmt.Sprintf("%.0f", v.Number), v.Number given in halves.
FormatF0(h) ==
    LET a == IF h < 0 THEN -h ELSE h
    IN (IF h < 0 THEN <<"-">> ELSE <<>>) \o Digits(RoundHalfEven(a))

\* Number of leading characters of s that satisfy Test.
RECURSIVE RunLength(_, _)
RunLength(s, chars) ==
    IF s = <<>> \/ s[1] \notin chars THEN 0
    ELSE 1 + RunLength(Tail(s), chars)

Drop(s, n) == SubSeq(s, n + 1, Len(s))

RECURSIVE Horner(_, _)
\* The value of a run of decimal digits, accumulated left to right.
Horner(acc, ds) ==
    IF ds = <<>> THEN acc
    ELSE Horner(acc * 10 + DigitValue(ds[1]), Tail(ds))

\* fmt's scan of a signed decimal integer at the start of s (verb %d):
\* leading spaces are skipped, a sign is accepted, then the longest run of
\* digits and underscores is taken and handed to strconv.ParseInt in base
\* 10, which rejects an underscore.  Input after the number is left unread.
ScanInt(s) ==
    LET t == Drop(s, RunLength(s, {" "}))
        signed == t # <<>> /\ t[1] \in {"+", "-"}
        u == IF signed THEN Tail(t) ELSE t
        n == RunLength(u, Range(DigitChars) \cup {"_"})
        tok == SubSeq(u, 1, n)
    IN IF n = 0 \/ "_" \in Range(tok)
       THEN [ok |-> FALSE, num |-> 0]
       ELSE [ok |-> TRUE,
             num |-> IF signed /\ t[1] = "-" THEN -Horner(0, tok)
                     ELSE Horner(0, tok)]

\* fmt.Sscanf(propName, "Challenge%d", &challengeNum)
ScanChallengeNum(propName) ==
    IF /\ Len(propName) >= Len(ChallengePrefix)
       /\ SubSeq(propName, 1, Len(ChallengePrefix)) = ChallengePrefix
    THEN ScanInt(Drop(propName, Len(ChallengePrefix)))
    ELSE [ok |-> FALSE, num |-> 0]

\* parseFloat: fmt.Sscanf(s, "%f", &f), on the texts FormatF0 produces (a
\* sign and digits); the result in halves.  f stays 0 when the scan fails.
parseFloat(s) ==
    LET t == Drop(s, RunLength(s, {" "}))
        signed == t # <<>> /\ t[1] \in {"+", "-"}
        u == IF signed THEN Tail(t) ELSE t
        n == RunLength(u, Range(DigitChars))
        v == 2 * Horner(0, SubSeq(u, 1, n))
    IN IF n = 0 THEN [f |-> 0, err |-> TRUE]
       ELSE [f |-> IF signed /\ t[1] = "-" THEN -v ELSE v, err |-> FALSE]

\* Mutant: only the first hyphen is dropped.
StripHyphens_FirstOnly(pageID) ==
    IF \E i \in 1..Len(pageID) : pageID[i] = "-"
    THEN LET k == CHOOSE i \in 1..Len(pageID) :
                    pageID[i] = "-" /\ \A j \in 1..(i - 1) : pageID[j] # "-"
         IN SubSeq(pageID, 1, k - 1) \o SubSeq(pageID, k + 1, Len(pageID))
    ELSE pageID

\* The loop that drops every hyphen of the page id.
StripHyphens(pageID) ==
    LET Keep(c) == c # "-" IN SelectSeq(pageID, Keep)

\* The fixed base of the public URL, kept as one piece of text.
BaseURL == <<"https://marcbaumholz.notion.site/">>

(***************************************************************************)
(* getTeamChallenges                                                       *)
(***************************************************************************)
NoChallenges == [p \in {} |-> <<>>]
Put(m, k, v) == [x \in DOMAIN m \cup {k} |-> IF x = k THEN v ELSE m[x]]

IsNumber(props, name) == name \in DOMAIN props /\ props[name].type = "number"

\* The numeric id of a fetched challenge page, written under key num: from
\* "id", and from "ID" when the key is still missing after that.
ReadChallengeID(ch, num, props) ==
    LET c1 == IF IsNumber(props, idProp)
              THEN Put(ch, num, FormatF0(props[idProp].number)) ELSE ch
    IN IF num \notin DOMAIN c1 /\ IsNumber(props, IDProp)
       THEN Put(c1, num, FormatF0(props[IDProp].number)) ELSE c1

\* Mutant: a failed fetch of a challenge page empties the mapping.
FetchChallenge_Abort(ch, num, id, ok) ==
    IF ok THEN ReadChallengeID(ch, num, GetPage(challengeDB, id).Properties)
    ELSE NoChallenges

\* Page.Get of the linked challenge page: on an error the loop continues
\* with the mapping as it is, otherwise the page's number is written.
FetchChallenge(ch, num, id, ok) ==
    IF ok THEN ReadChallengeID(ch, num, GetPage(challengeDB, id).Properties)
    ELSE ch

\* The property is followed to a challenge page.
IsChallengeRelation(propName, prop) ==
    /\ ScanChallengeNum(propName).ok
    /\ prop.type = "relation"
    /\ Len(prop.relation) > 0

\* Page.Get of the team page.
GetTeamPage ==
    /\ pc = "getTeamChallenges"
    /\ \E ok \in {b \in Outcomes : b => HasPage(teamsDB, teamPageID)} :
         /\ storeLog' = Append(storeLog, LogGet("teams", teamPageID, ok))
         /\ faultsLeft' = Spend(ok)
         /\ extractErr' = ~ok
         /\ challenges' = NoChallenges
         /\ IF ok
            THEN /\ todo' = DOMAIN GetPage(teamsDB, teamPageID).Properties
                 /\ pc' = "rangeProperties"
            ELSE /\ todo' = {}
                 /\ pc' = "challengesReturned"
    /\ UNCHANGED <<storeVars, findVars, nextVars, outcome>>

\* One iteration of the range over page.Properties, in any order.
RangeProperty ==
    /\ pc = "rangeProperties"
    /\ \E propName \in todo :
         LET prop == GetPage(teamsDB, teamPageID).Properties[propName]
             num == ScanChallengeNum(propName).num
         IN /\ todo' = todo \ {propName}
            /\ IF IsChallengeRelation(propName, prop)
               THEN LET id == prop.relation[1]
                    IN \E ok \in {b \in Outcomes : b => HasPage(challengeDB, id)} :
                         /\ storeLog' = Append(storeLog, LogGet("challenges", id, ok))
                         /\ faultsLeft' = Spend(ok)
                         /\ challenges' = FetchChallenge(challenges, num, id, ok)
               ELSE UNCHANGED <<storeLog, faultsLeft, challenges>>
    /\ UNCHANGED <<storeVars, findVars, pc, extractErr, nextVars, outcome>>

\* The range is over: return challenges, nil.
ReturnChallenges ==
    /\ pc = "rangeProperties"
    /\ todo = {}
    /\ pc' = "challengesReturned"
    /\ UNCHANGED <<storeVars, storeLog, faultsLeft, findVars, extractVars, nextVars, outcome>>

(***************************************************************************)
(* findNextChallengeURL                                                    *)
(***************************************************************************)
\* Mutant: the search starts from position 1.
DefaultPos_One == 0 + 1

\* currentPos := 0
DefaultPos == 0

\* Mutant: the position is stored before the comparison.
FindPos_AssignFirst ==
    /\ pc = "findNextChallengeURL"
    /\ \E pos \in DOMAIN challenges \ visited :
         /\ currentPos' = pos
         /\ IF challenges[pos] = currentChallengeID
            THEN pc' = "nextPos" /\ UNCHANGED visited
            ELSE visited' = visited \cup {pos} /\ UNCHANGED pc
    /\ UNCHANGED <<storeVars, storeLog, faultsLeft, findVars, extractVars, nextID,
                   filterValue, result, panicked, url, outcome>>

\* One iteration of the range over challenges, in any order.
FindPos ==
    /\ pc = "findNextChallengeURL"
    /\ \E pos \in DOMAIN challenges \ visited :
         IF challenges[pos] = currentChallengeID
         THEN /\ currentPos' = pos
              /\ pc' = "nextPos"
              /\ UNCHANGED visited
         ELSE /\ visited' = visited \cup {pos}
              /\ UNCHANGED <<currentPos, pc>>
    /\ UNCHANGED <<storeVars, storeLog, faultsLeft, findVars, extractVars, nextID,
                   filterValue, result, panicked, url, outcome>>

\* The range ended without a match: currentPos keeps its initial 0.
EndRange ==
    /\ pc = "findNextChallengeURL"
    /\ visited = DOMAIN challenges
    /\ pc' = "nextPos"
    /\ UNCHANGED <<storeVars, storeLog, faultsLeft, findVars, extractVars, nextVars, outcome>>

\* Mutant: the position after the next one is looked up.
NextPos_Skip(pos) == pos + 2

NextPos(pos) == pos + 1

\* nextPos := currentPos + 1 and the lookup of challenges[nextPos].
SelectNext ==
    /\ pc = "nextPos"
    /\ IF NextPos(currentPos) \in DOMAIN challenges
       THEN /\ nextID' = challenges[NextPos(currentPos)]
            /\ pc' = "queryId"
            /\ UNCHANGED url
       ELSE /\ url' = <<>>
            /\ pc' = "urlReturned"
            /\ UNCHANGED nextID
    /\ UNCHANGED <<storeVars, storeLog, faultsLeft, findVars, extractVars, visited,
                   currentPos, filterValue, result, panicked, outcome>>

\* `err != nil || len(result.Results) == 0`: the length is read only when
\* err is nil, and reading it from a nil result panics.
NeedFallback(err, res) ==
    IF err THEN [panic |-> FALSE, yes |-> TRUE]
    ELSE IF res.isNil THEN [panic |-> TRUE, yes |-> FALSE]
    ELSE [panic |-> FALSE, yes |-> Len(res.Results) = 0]

\* Mutant: the length is read without the nil check.
HasRecord_NoNilCheck(res) ==
    IF res.isNil THEN [panic |-> TRUE, yes |-> FALSE]
    ELSE [panic |-> FALSE, yes |-> Len(res.Results) > 0]

\* `result != nil && len(result.Results) > 0`
HasRecord(res) ==
    IF res.isNil THEN [panic |-> FALSE, yes |-> FALSE]
    ELSE [panic |-> FALSE, yes |-> Len(res.Results) > 0]

\* The Notion URL of the first record, or "" without a record.
BuildURL(res) ==
    IF HasRecord(res).yes
    THEN BaseURL \o StripHyphens(res.Results[1].ID)
    ELSE <<>>

\* A query of the Challenge collection and what the client hands back.
ChallengeQuery(prop, f, ok) ==
    IF ok THEN QueryResult(FilterNumber(challengeDB, prop, f)) ELSE NilResult

\* The query on "id".
QueryChallengeId ==
    /\ pc = "queryId"
    /\ \E ok \in Outcomes :
         LET f == parseFloat(nextID).f
             res == ChallengeQuery(idProp, f, ok)
             fb == NeedFallback(~ok, res)
         IN /\ storeLog' = Append(storeLog,
                              LogQuery("challenges", idProp, ok, res.Results))
            /\ faultsLeft' = Spend(ok)
            /\ filterValue' = f
            /\ result' = res
            /\ panicked' = (fb.panic \/ (~fb.yes /\ HasRecord(res).panic))
            /\ IF fb.panic \/ (~fb.yes /\ HasRecord(res).panic)
               THEN pc' = "panic" /\ UNCHANGED url
               ELSE IF fb.yes
               THEN pc' = "queryID" /\ UNCHANGED url
               ELSE pc' = "urlReturned" /\ url' = BuildURL(res)
    /\ UNCHANGED <<storeVars, findVars, extractVars, visited, currentPos,
                   nextID, outcome>>

\* The fallback query on "ID"; its error is dropped.
QueryChallengeID ==
    /\ pc = "queryID"
    /\ \E ok \in Outcomes :
         LET f == parseFloat(nextID).f
             res == ChallengeQuery(IDProp, f, ok)
         IN /\ storeLog' = Append(storeLog,
                              LogQuery("challenges", IDProp, ok, res.Results))
            /\ faultsLeft' = Spend(ok)
            /\ filterValue' = f
            /\ result' = res
            /\ panicked' = HasRecord(res).panic
            /\ IF HasRecord(res).panic
               THEN pc' = "panic" /\ UNCHANGED url
               ELSE pc' = "urlReturned" /\ url' = BuildURL(res)
    /\ UNCHANGED <<storeVars, findVars, extractVars, visited, currentPos,
                   nextID, outcome>>

(***************************************************************************)
(* handleNextChallenge                                                     *)
(***************************************************************************)
\* if teamName == "" { 400 }
CheckTeamName ==
    /\ pc = "handleNextChallenge"
    /\ IF teamName = ""
       THEN outcome' = "BadRequest" /\ pc' = "done"
       ELSE pc' = "findTeamPage" /\ UNCHANGED outcome
    /\ UNCHANGED <<storeVars, storeLog, faultsLeft, findVars, extractVars, nextVars>>

\* if err != nil || teamPageID == "" { error.html }
CheckTeam ==
    /\ pc = "teamReturned"
    /\ IF findErr \/ teamPageID = <<>>
       THEN outcome' = "Error" /\ pc' = "done"
       ELSE pc' = "getTeamChallenges" /\ UNCHANGED outcome
    /\ UNCHANGED <<storeVars, storeLog, faultsLeft, findVars, extractVars, nextVars>>

\* if err != nil { error.html }
CheckChallenges ==
    /\ pc = "challengesReturned"
    /\ IF extractErr
       THEN outcome' = "Error" /\ pc' = "done"
       ELSE pc' = "findNextChallengeURL" /\ UNCHANGED outcome
    /\ UNCHANGED <<storeVars, storeLog, faultsLeft, findVars, extractVars, nextVars>>

\* finished.html for "", redirect.html otherwise.
Render ==
    /\ pc = "urlReturned"
    /\ outcome' = IF url = <<>> THEN "Finished" ELSE "Redirect"
    /\ pc' = "done"
    /\ UNCHANGED <<storeVars, storeLog, faultsLeft, findVars, extractVars, nextVars>>

(***************************************************************************)
(* Stores and requests the specifications start from.                      *)
(***************************************************************************)
TeamID(i) == <<"t">> \o Digits(i)
FillerID(i) == <<"f">> \o Digits(i)
ChallengeID(i) == <<"c", "-">> \o Digits(i) \o <<"-", "x">>

OneProperty(name, value) == [n \in {name} |-> value]

\* Records of other teams, ahead of the records of interest in store order.
Fillers(n) ==
    [i \in 1..n |-> Page(FillerID(i), OneProperty(NameProp, TitleProperty(<<"Filler">>)))]

PadSizes == {0, PageSize - 1, PageSize}
TeamNames == {"Rockets", "Comets"}

\* The name-bearing property of a team record.
TeamPropertyChoices ==
    {OneProperty(NameProp, TitleProperty(<<"Rockets">>)),
     OneProperty(NameProp, TitleProperty(<<"rockets">>)),
     OneProperty(NameProp, TitleProperty(NoText)),
     OneProperty(titleProp, TitleProperty(<<"Rockets">>)),
     OneProperty(TitleProp, RichTextProperty(<<"Rockets">>)),
     OneProperty(LabelProp, RichTextProperty(<<"Rockets">>)),
     OneProperty(LabelProp, RichTextProperty(<<"rockets">>)),
     OneProperty(LabelProp, RichTextProperty(NoText)),
     OneProperty(LabelProp, TitleProperty(<<"Rockets">>)),
     OneProperty(LabelProp, RelationProperty(NoRelation))}

\* More faults than any request issues store calls.
Unlimited == Len(propertyNames) + MaxChallenges + 5

Idle ==
    /\ storeLog = <<>>
    /\ faultsLeft = Unlimited
    /\ tier = 1
    /\ teamPageID = <<>>
    /\ findErr = FALSE
    /\ todo = {}
    /\ challenges = NoChallenges
    /\ extractErr = FALSE
    /\ visited = {}
    /\ currentPos = DefaultPos
    /\ nextID = <<>>
    /\ filterValue = 0
    /\ result = NilResult
    /\ panicked = FALSE
    /\ url = <<>>
    /\ outcome = ""

(***************************************************************************)
(* SpecResolve: findTeamPage on its own.                                   *)
(***************************************************************************)
InitResolve ==
    /\ \E n \in PadSizes, k \in 1..MaxTeams :
         \E choice \in [1..k -> TeamPropertyChoices] :
           teamsDB = Fillers(n) \o [i \in 1..k |-> Page(TeamID(i), choice[i])]
    /\ challengeDB = <<>>
    /\ teamName \in TeamNames
    /\ currentChallengeID = <<"1">>
    /\ pc = "findTeamPage"
    /\ Idle

NextResolve == QueryTeamFilter \/ QueryAllTeams

SpecResolve == InitResolve /\ [][NextResolve]_vars

(***************************************************************************)
(* SpecExtract: getTeamChallenges on its own, for a team already resolved. *)
(***************************************************************************)
ChallengeName(i) == ChallengePrefix \o Digits(i)
PositionOfName(name) == CHOOSE i \in 1..MaxChallenges : name = ChallengeName(i)
\* A name that is not "Challenge" and a number, and that Sscanf accepts.
Challenge1x == ChallengeName(1) \o <<"x">>

\* The number of challenge record i, in halves: 10.0, 20.0, ...
NumberOf(i) == 2 * (10 * i)

\* How a challenge record carries its number.
ChallengeShapes(i) ==
    {OneProperty(idProp, NumberProperty(NumberOf(i))),
     OneProperty(IDProp, NumberProperty(NumberOf(i))),
     [n \in {idProp, IDProp} |->
        IF n = idProp THEN RichTextProperty(<<"ten">>)
        ELSE NumberProperty(NumberOf(i))],
     [n \in {idProp, IDProp} |->
        IF n = idProp THEN NumberProperty(NumberOf(i))
        ELSE NumberProperty(NumberOf(i) + 2)],
     OneProperty(NameProp, TitleProperty(<<"Station">>))}

\* Challenge collections: the first record in every shape, the others with "id".
ChallengeDBs ==
    {[i \in 1..MaxChallenges |->
        Page(ChallengeID(i),
             IF i = 1 THEN shape
             ELSE OneProperty(idProp, NumberProperty(NumberOf(i))))] :
        shape \in ChallengeShapes(1)}

Absent == [type |-> "absent", text |-> NoText, relation |-> NoRelation, number |-> 0]

\* What a team record may hold under the property names of interest.
TeamValueChoices(name) ==
    IF name = ChallengeName(1)
    THEN {Absent, RelationProperty(NoRelation),
          RelationProperty(<<ChallengeID(1)>>),
          RelationProperty(<<ChallengeID(1), ChallengeID(2)>>),
          RichTextProperty(<<"soon">>)}
    ELSE IF name = Challenge1x
    THEN {Absent, RelationProperty(<<ChallengeID(MaxChallenges)>>)}
    ELSE IF name = NotesProp
    THEN {Absent, RelationProperty(<<ChallengeID(1)>>)}
    ELSE {Absent, RelationProperty(<<ChallengeID(PositionOfName(name))>>)}

TeamPropNames ==
    {ChallengeName(i) : i \in 1..MaxChallenges} \cup {Challenge1x, NotesProp}

\* The team records: every choice of values, absent properties left out.
TeamRecords ==
    {Page(TeamID(1),
          [n \in {m \in TeamPropNames : f[m] # Absent} \cup {NameProp} |->
              IF n = NameProp THEN TitleProperty(<<"Rockets">>) ELSE f[n]]) :
        f \in {g \in [TeamPropNames -> UNION {TeamValueChoices(n) : n \in TeamPropNames}] :
                  \A n \in TeamPropNames : g[n] \in TeamValueChoices(n)}}

InitExtract ==
    /\ \E team \in TeamRecords : teamsDB = <<team>>
    /\ challengeDB \in ChallengeDBs
    /\ teamName = "Rockets"
    /\ currentChallengeID = <<"1">>
    /\ pc = "getTeamChallenges"
    /\ storeLog = <<>>
    /\ faultsLeft = Unlimited
    /\ tier = 1
    /\ teamPageID = TeamID(1)
    /\ findErr = FALSE
    /\ todo = {}
    /\ challenges = NoChallenges
    /\ extractErr = FALSE
    /\ visited = {}
    /\ currentPos = DefaultPos
    /\ nextID = <<>>
    /\ filterValue = 0
    /\ result = NilResult
    /\ panicked = FALSE
    /\ url = <<>>
    /\ outcome = ""

NextExtract == GetTeamPage \/ RangeProperty \/ ReturnChallenges

SpecExtract == InitExtract /\ [][NextExtract]_vars

(***************************************************************************)
(* SpecNext: the position search and successor lookup at the start of      *)
(* findNextChallengeURL, for every mapping over positions 0..MaxPos.       *)
(***************************************************************************)
IdStrings == {FormatF0(NumberOf(i)) : i \in 1..3}
UnknownID == <<"9", "9">>
Positions == 0..MaxPos

Sequences ==
    UNION {[keys -> IdStrings] : keys \in SUBSET Positions}

InitNext ==
    /\ teamsDB = <<>>
    /\ challengeDB = <<>>
    /\ teamName = "Rockets"
    /\ currentChallengeID \in IdStrings \cup {UnknownID}
    /\ pc = "findNextChallengeURL"
    /\ storeLog = <<>>
    /\ faultsLeft = Unlimited
    /\ tier = 1
    /\ teamPageID = TeamID(1)
    /\ findErr = FALSE
    /\ todo = {}
    /\ challenges \in Sequences
    /\ extractErr = FALSE
    /\ visited = {}
    /\ currentPos = DefaultPos
    /\ nextID = <<>>
    /\ filterValue = 0
    /\ result = NilResult
    /\ panicked = FALSE
    /\ url = <<>>
    /\ outcome = ""

NextNext == FindPos \/ EndRange \/ SelectNext

SpecNext == InitNext /\ [][NextNext]_vars

(***************************************************************************)
(* SpecLocate: the two queries of the Challenge collection at the end of   *)
(* findNextChallengeURL, for a successor id already selected.              *)
(***************************************************************************)
\* Challenge collections whose records carry 10 or 20 under "id" or "ID".
LocateDBs ==
    {[i \in 1..MaxChallenges |-> Page(ChallengeID(i), props[i])] :
        props \in [1..MaxChallenges ->
                     {OneProperty(n, NumberProperty(NumberOf(k))) :
                         n \in {idProp, IDProp}, k \in 1..2}]}

InitLocate ==
    /\ teamsDB = <<>>
    /\ challengeDB \in LocateDBs
    /\ teamName = "Rockets"
    /\ currentChallengeID = <<"1">>
    /\ pc = "queryId"
    /\ storeLog = <<>>
    /\ faultsLeft = Unlimited
    /\ tier = 1
    /\ teamPageID = TeamID(1)
    /\ findErr = FALSE
    /\ todo = {}
    /\ challenges = NoChallenges
    /\ extractErr = FALSE
    /\ visited = {}
    /\ currentPos = DefaultPos
    /\ nextID \in IdStrings
    /\ filterValue = 0
    /\ result = NilResult
    /\ panicked = FALSE
    /\ url = <<>>
    /\ outcome = ""

NextLocate == QueryChallengeId \/ QueryChallengeID

SpecLocate == InitLocate /\ [][NextLocate]_vars

(***************************************************************************)
(* Spec: one request through handleNextChallenge, from the form value to   *)
(* the rendered template, with at most FaultBudget failing store calls.    *)
(***************************************************************************)
FaultBudgets == {0, 1, 2}

\* Team "Rockets", named under a tiered or an untiered property, linking
\* challenge i under Challenge<i> or not at all, and possibly the last
\* challenge under Challenge1x.
RequestTeams ==
    {Page(TeamID(1),
          [n \in {nameProp} \cup links |->
              IF n = nameProp
              THEN (IF nameProp = NameProp THEN TitleProperty(<<"Rockets">>)
                    ELSE RichTextProperty(<<"Rockets">>))
              ELSE IF n = Challenge1x
              THEN RelationProperty(<<ChallengeID(MaxChallenges)>>)
              ELSE RelationProperty(<<ChallengeID(PositionOfName(n))>>)]) :
        nameProp \in {NameProp, LabelProp},
        links \in SUBSET ({ChallengeName(i) : i \in 1..MaxChallenges} \cup {Challenge1x})}

\* Challenge records: the first under "id" or "ID", the others under "id"
\* with their own number or with the number of the first.
RequestDBs ==
    {[i \in 1..MaxChallenges |->
        Page(ChallengeID(i),
             IF i = 1 THEN OneProperty(first, NumberProperty(NumberOf(1)))
             ELSE OneProperty(idProp, NumberProperty(NumberOf(IF i \in same THEN 1 ELSE i))))] :
        first \in {idProp, IDProp}, same \in SUBSET (2..MaxChallenges)}

Init ==
    /\ \E team \in RequestTeams : teamsDB = <<team>>
    /\ challengeDB \in RequestDBs
    /\ teamName \in TeamNames \cup {""}
    /\ currentChallengeID \in {FormatF0(NumberOf(i)) : i \in 1..MaxChallenges} \cup {UnknownID}
    /\ pc = "handleNextChallenge"
    /\ storeLog = <<>>
    /\ faultsLeft \in FaultBudgets
    /\ tier = 1
    /\ teamPageID = <<>>
    /\ findErr = FALSE
    /\ todo = {}
    /\ challenges = NoChallenges
    /\ extractErr = FALSE
    /\ visited = {}
    /\ currentPos = DefaultPos
    /\ nextID = <<>>
    /\ filterValue = 0
    /\ result = NilResult
    /\ panicked = FALSE
    /\ url = <<>>
    /\ outcome = ""

Next ==
    \/ CheckTeamName
    \/ QueryTeamFilter
    \/ QueryAllTeams
    \/ CheckTeam
    \/ GetTeamPage
    \/ RangeProperty
    \/ ReturnChallenges
    \/ CheckChallenges
    \/ FindPos
    \/ EndRange
    \/ SelectNext
    \/ QueryChallengeId
    \/ QueryChallengeID
    \/ Render

Spec == Init /\ [][Next]_vars

(***************************************************************************)
(* SpecRound: the numeric identifier of one challenge on its way from the  *)
(* store through getTeamChallenges into the filter of the Locator, for     *)
(* every multiple of one half between -MaxNum and MaxNum.                  *)
(***************************************************************************)
Numbers == (-2 * MaxNum)..(2 * MaxNum)

\* The text is the decimal numeral of the integer k: a minus sign exactly
\* for k < 0, then digits without a leading zero, and nothing else.
ReadsAs(s, k) ==
    LET neg == s # <<>> /\ s[1] = "-"
        ds == IF neg THEN Tail(s) ELSE s
    IN /\ ds # <<>>
       /\ \A i \in 1..Len(ds) : IsDigit(ds[i])
       /\ Len(ds) > 1 => ds[1] # "0"
       /\ neg <=> k < 0
       /\ Horner(0, ds) = (IF k < 0 THEN -k ELSE k)

NumeralChars == Range(DigitChars) \cup {"-"}
\* Every text of up to three characters that is the numeral of k.
Numerals(k) ==
    {s \in UNION {[1..n -> NumeralChars] : n \in 1..3} : ReadsAs(s, k)}

InitRound ==
    /\ teamsDB = <<Page(TeamID(1),
                        [n \in {NameProp, ChallengeName(1)} |->
                            IF n = NameProp THEN TitleProperty(<<"Rockets">>)
                            ELSE RelationProperty(<<ChallengeID(1)>>)])>>
    /\ \E h \in Numbers, prop \in {idProp, IDProp} :
         /\ challengeDB = <<Page(ChallengeID(1), OneProperty(prop, NumberProperty(h)))>>
         /\ currentChallengeID \in
                {UnknownID} \cup (IF h % 2 = 0 THEN Numerals(h \div 2) ELSE {})
    /\ teamName = "Rockets"
    /\ pc = "getTeamChallenges"
    /\ storeLog = <<>>
    /\ faultsLeft \in FaultBudgets
    /\ tier = 1
    /\ teamPageID = TeamID(1)
    /\ findErr = FALSE
    /\ todo = {}
    /\ challenges = NoChallenges
    /\ extractErr = FALSE
    /\ visited = {}
    /\ currentPos = DefaultPos
    /\ nextID = <<>>
    /\ filterValue = 0
    /\ result = NilResult
    /\ panicked = FALSE
    /\ url = <<>>
    /\ outcome = ""

NextRound ==
    \/ GetTeamPage
    \/ RangeProperty
    \/ ReturnChallenges
    \/ CheckChallenges
    \/ FindPos
    \/ EndRange
    \/ SelectNext
    \/ QueryChallengeId
    \/ QueryChallengeID
    \/ Render

SpecRound == InitRound /\ [][NextRound]_vars

(***************************************************************************)
(* Claims about findTeamPage, checked under SpecResolve.                   *)
(***************************************************************************)
\* The (record, property) pairs whose title or rich-text value is the name.
NameHolders(name) ==
    {h \in (1..Len(teamsDB)) \X {NameProp, TeamProp, TitleProp, titleProp, LabelProp} :
        TextEquals(teamsDB[h[1]], h[2], name)}

UniqueMatch == Cardinality(NameHolders(teamName)) = 1
MatchIndex == (CHOOSE h \in NameHolders(teamName) : TRUE)[1]

LastCall == storeLog[Len(storeLog)]
IsScan(e) == e.call = "Query" /\ e.db = "teams" /\ e.prop = NoFilter
ScanFailed == storeLog # <<>> /\ IsScan(LastCall) /\ ~LastCall.ok
ScanSucceeded == storeLog # <<>> /\ IsScan(LastCall) /\ LastCall.ok

C2_TieredOrder ==
    LET order == <<NameProp, TeamProp, TitleProp, titleProp>>
        n == Len(storeLog)
    IN /\ n <= Len(order) + 1
       /\ \A i \in 1..n :
            /\ storeLog[i].call = "Query" /\ storeLog[i].db = "teams"
            /\ i <= Len(order) => storeLog[i].prop = order[i]
            /\ i = Len(order) + 1 => IsScan(storeLog[i])
            /\ IsScan(storeLog[i]) =>
                 \A j \in 1..(i - 1) : ~storeLog[j].ok \/ storeLog[j].ids = <<>>
            /\ (~IsScan(storeLog[i]) /\ storeLog[i].ok /\ storeLog[i].ids # <<>>) =>
                 /\ i = n
                 /\ pc = "teamReturned"
                 /\ ~findErr
                 /\ teamPageID = storeLog[i].ids[1]
       /\ (pc = "teamReturned" /\ ~IsScan(LastCall)) =>
            (LastCall.ok /\ LastCall.ids # <<>>)

\* C2 witness: the query on Name failed, the query on Team returned
\* nothing, and the query on Title returned the team: the lookup ended.
C2_Witness ==
    /\ pc = "teamReturned"
    /\ Len(storeLog) = 3
    /\ ~storeLog[1].ok
    /\ storeLog[2].ok /\ storeLog[2].ids = <<>>
    /\ storeLog[3].ok /\ storeLog[3].prop = TitleProp
    /\ teamPageID = storeLog[3].ids[1]

\* No record that the unfiltered query returned holds the name.
NoScannedMatch ==
    \A i \in 1..Len(teamsDB) :
        teamsDB[i].ID \in Range(LastCall.ids) =>
            \A n \in DOMAIN teamsDB[i].Properties : ~TextEquals(teamsDB[i], n, teamName)

\* C3: findTeamPage returns an error exactly when the unfiltered query was
\* reached and failed (never for a failed filter query), and returns no
\* identifier and no error when that query succeeds without a match.
C3_ErrorOnlyFromScan ==
    pc = "teamReturned" =>
        /\ findErr <=> ScanFailed
        /\ findErr => teamPageID = <<>>
        /\ (ScanSucceeded /\ NoScannedMatch) => (teamPageID = <<>> /\ ~findErr)

\* C3 witness: a filter query failed and was passed over, then the
\* unfiltered query failed and its error was returned.
C3_Witness ==
    /\ pc = "teamReturned"
    /\ findErr
    /\ ScanFailed
    /\ \E i \in 1..(Len(storeLog) - 1) : ~storeLog[i].ok

(***************************************************************************)
(* Claims about getTeamChallenges, checked under SpecExtract.              *)
(***************************************************************************)
TeamProperties == GetPage(teamsDB, teamPageID).Properties

\* The name is "Challenge" followed by a base-10 integer and nothing else.
IsChallengeN(name) ==
    /\ Len(name) > Len(ChallengePrefix)
    /\ SubSeq(name, 1, Len(ChallengePrefix)) = ChallengePrefix
    /\ \A i \in (Len(ChallengePrefix) + 1)..Len(name) : IsDigit(name[i])
PositionOf(name) == Horner(0, Drop(name, Len(ChallengePrefix)))

\* The fetch of this challenge page was issued and succeeded.
Fetched(id) ==
    \E i \in 1..Len(storeLog) : storeLog[i] = LogGet("challenges", id, TRUE)

\* The record carries a number under "id", or else under "ID".
HasNumericID(props) == IsNumber(props, idProp) \/ IsNumber(props, IDProp)
NumericID(props) ==
    IF IsNumber(props, idProp) THEN props[idProp].number ELSE props[IDProp].number

\* The property is a non-empty relation whose first linked record was
\* fetched and carries a numeric identifier.
Contributes(name) ==
    /\ TeamProperties[name].type = "relation"
    /\ Len(TeamProperties[name].relation) > 0
    /\ Fetched(TeamProperties[name].relation[1])
    /\ HasNumericID(GetPage(challengeDB, TeamProperties[name].relation[1]).Properties)
ContributedID(name) ==
    FormatF0(NumericID(GetPage(challengeDB, TeamProperties[name].relation[1]).Properties))

\* C4: the returned mapping holds key N with the stringified numeric id of
\* the first linked record for every property named Challenge<N> that is a
\* non-empty relation to a fetched record with a numeric id, and holds no
\* other key: a property with any other name contributes nothing.
C4_ExtractExactlyChallengeN ==
    (pc = "challengesReturned" /\ ~extractErr) =>
        /\ \A name \in DOMAIN TeamProperties :
             (IsChallengeN(name) /\ Contributes(name)) =>
                 /\ PositionOf(name) \in DOMAIN challenges
                 /\ challenges[PositionOf(name)] = ContributedID(name)
        /\ \A N \in DOMAIN challenges :
             \E name \in DOMAIN TeamProperties :
                 IsChallengeN(name) /\ PositionOf(name) = N /\ Contributes(name)

(***************************************************************************)
(* Claims about the Next-Position step, checked under SpecNext.            *)
(***************************************************************************)
\* The successor lookup has been made.
Selected == pc \in {"queryId", "urlReturned"}
\* The positions that store the current id.
PositionsOf(id) == {p \in DOMAIN challenges : challenges[p] = id}

\* The step yields the identifier at position q, or Empty without key q.
YieldsAt(q) ==
    IF q \in DOMAIN challenges
    THEN pc = "queryId" /\ nextID = challenges[q]
    ELSE pc = "urlReturned" /\ url = <<>> /\ nextID = <<>>

\* C5 as stated: for every position p that stores the current id, the step
\* selects the identifier at p+1, or Empty when key p+1 is missing.
C5_NextOfEveryPosition ==
    Selected => \A p \in PositionsOf(currentChallengeID) : YieldsAt(p + 1)

\* C5 amended: when the current id is stored at exactly one position p, the
\* step selects the identifier at p+1, and Empty when key p+1 is missing,
\* also when later positions exist.
C5_NextOfUniquePosition ==
    (Selected /\ Cardinality(PositionsOf(currentChallengeID)) = 1) =>
        \A p \in PositionsOf(currentChallengeID) : YieldsAt(p + 1)

\* C5 witness: the current id is stored once, at p; key p+1 is missing, key
\* p+2 exists, and the step returned Empty.
C5_Witness ==
    /\ pc = "urlReturned"
    /\ url = <<>>
    /\ \E p \in DOMAIN challenges :
         /\ PositionsOf(currentChallengeID) = {p}
         /\ p + 1 \notin DOMAIN challenges
         /\ p + 2 \in DOMAIN challenges

\* C6 as stated: when the current id is stored at no position, the step
\* returns the identifier at position 1.
C6_UnknownYieldsFirst ==
    (Selected /\ PositionsOf(currentChallengeID) = {}) =>
        (1 \in DOMAIN challenges /\ pc = "queryId" /\ nextID = challenges[1])

\* C6 amended: when the current id is stored at no position, the step
\* returns the identifier at position 1 if the sequence has key 1 and Empty
\* if it has not; it never fails.
C6_UnknownYieldsFirstIfAny ==
    (Selected /\ PositionsOf(currentChallengeID) = {}) =>
        (YieldsAt(1) /\ ~panicked)

\* C6 witness: every position was compared without a match and the
\* identifier at position 1 was selected, with further positions present.
C6_Witness ==
    /\ pc = "queryId"
    /\ PositionsOf(currentChallengeID) = {}
    /\ visited = DOMAIN challenges
    /\ Cardinality(DOMAIN challenges) >= 2
    /\ nextID = challenges[1]

(***************************************************************************)
(* Claims about the Locator step, checked under SpecLocate.                *)
(***************************************************************************)
Produced(e) == e.ok /\ e.ids # <<>>

\* C7: the first query filters on "id"; the query on "ID" is issued exactly
\* when the first failed or returned nothing, and at most once; the step
\* returns Empty exactly when no query produced a record; a nil result is
\* never dereferenced.
C7_LocatorQueries ==
    LET n == Len(storeLog)
    IN /\ n <= 2
       /\ ~panicked /\ pc # "panic"
       /\ \A i \in 1..n :
            /\ storeLog[i].call = "Query" /\ storeLog[i].db = "challenges"
            /\ storeLog[i].prop = IF i = 1 THEN idProp ELSE IDProp
       /\ pc = "queryID" => (n = 1 /\ ~Produced(storeLog[1]))
       /\ pc = "urlReturned" =>
            /\ n >= 1
            /\ n = 2 <=> ~Produced(storeLog[1])
            /\ url = <<>> <=> \A i \in 1..n : ~Produced(storeLog[i])

\* C7 witness: both queries failed and the step returned Empty.
C7_Witness ==
    /\ pc = "urlReturned"
    /\ Len(storeLog) = 2
    /\ ~storeLog[1].ok /\ ~storeLog[2].ok
    /\ result = NilResult
    /\ url = <<>>

(***************************************************************************)
(* Claims about the whole request, checked under Spec.                     *)
(***************************************************************************)
Answered == pc = "done" /\ teamName # ""
Resolved == teamPageID # <<>> /\ ~findErr
AllCallsOK == \A i \in 1..Len(storeLog) : storeLog[i].ok

\* The team links a challenge under the property Challenge<p>.
Linked(p) ==
    /\ ChallengeName(p) \in DOMAIN TeamProperties
    /\ TeamProperties[ChallengeName(p)].type = "relation"
    /\ Len(TeamProperties[ChallengeName(p)].relation) > 0
LinkedRecord(p) == GetPage(challengeDB, TeamProperties[ChallengeName(p)].relation[1])
ConsecutiveLinks ==
    \E k \in 1..MaxChallenges : \A i \in 1..MaxChallenges : Linked(i) <=> i <= k

\* The page id c-<i>-x without its hyphens, written out.
CleanID(id) ==
    <<"c">> \o Digits(CHOOSE i \in 1..MaxChallenges : id = ChallengeID(i)) \o <<"x">>

UniqueNumbers ==
    \A i, j \in 1..Len(challengeDB) : \A a, b \in {idProp, IDProp} :
        ( /\ i # j
          /\ IsNumber(challengeDB[i].Properties, a)
          /\ IsNumber(challengeDB[j].Properties, b) )
        => challengeDB[i].Properties[a].number # challengeDB[j].Properties[b].number

\* The challenge records whose numeric identifier reads as this text.
Carriers(id) ==
    {i \in 1..Len(challengeDB) :
        /\ HasNumericID(challengeDB[i].Properties)
        /\ FormatF0(NumericID(challengeDB[i].Properties)) = id}

SuccessorLinked ==
    /\ UniqueNumbers
    /\ \E p \in 1..(MaxChallenges - 1) :
         /\ Linked(p) /\ Linked(p + 1)
         /\ HasNumericID(LinkedRecord(p).Properties)
         /\ currentChallengeID = FormatF0(NumericID(LinkedRecord(p).Properties))

\* No fetch of a challenge record and no query of the Challenge collection failed.
ChallengeCallsOK ==
    \A i \in 1..Len(storeLog) : storeLog[i].db = "challenges" => storeLog[i].ok

\* C9: a request with a team name ends in Redirect, Finished or Error;
\* Redirect only with a URL, Error when the team is not found or a store
\* call of findTeamPage or getTeamChallenges returned an error, and a
\* request whose current challenge has a successor does not end in Finished
\* after a failed fetch of a challenge record or a failed query of the
\* Challenge collection.
C9_Outcomes ==
    Answered =>
        /\ outcome \in {"Redirect", "Finished", "Error"}
        /\ outcome = "Redirect" => url # <<>>
        /\ (findErr \/ teamPageID = <<>> \/ extractErr) => outcome = "Error"
        /\ (outcome = "Finished" /\ SuccessorLinked) => ChallengeCallsOK

(***************************************************************************)
(* Claim about the numeric identifier's round trip, checked under          *)
(* SpecRound.                                                              *)
(***************************************************************************)
StoredNumber == NumericID(challengeDB[1].Properties)
IsWhole(h) == h % 2 = 0
Searched == pc \in {"nextPos", "queryId", "queryID", "urlReturned", "done"}
Queried == \E i \in 1..Len(storeLog) : storeLog[i].call = "Query"

\* C10: a whole stored number n enters the sequence as the decimal numeral
\* of n without decimal places; a current id that is the numeral of n is
\* found equal to it; and the Locator's filter value, parsed back from the
\* numeral, is n again.
C10_RoundTrip ==
    (IsWhole(StoredNumber) /\ 1 \in DOMAIN challenges) =>
        /\ ReadsAs(challenges[1], StoredNumber \div 2)
        /\ (Searched /\ ReadsAs(currentChallengeID, StoredNumber \div 2)) =>
               (currentPos = 1 /\ PositionsOf(currentChallengeID) = {1})
        /\ Queried => (nextID = challenges[1] /\ filterValue = StoredNumber)

\* C10 witness: the stored number is -12.0; the sequence holds it at
\* position 1, and the filter built from it found the record again.
C10_Witness ==
    /\ StoredNumber = -2 * 12
    /\ 1 \in DOMAIN challenges
    /\ challenges[1] = <<"-", "1", "2">>
    /\ pc = "urlReturned"
    /\ filterValue = StoredNumber
    /\ url = BaseURL \o <<"c", "1", "x">>

(***************************************************************************)
(* Claim about fetch failures in getTeamChallenges, checked under          *)
(* SpecExtract.                                                            *)
(***************************************************************************)
\* The step is an iteration of the range that called Page.Get.
FetchStep == pc = "rangeProperties" /\ Len(storeLog') = Len(storeLog) + 1
FetchOK == storeLog'[Len(storeLog')].ok
\* The property of that iteration, the position its name reads as, and the
\* properties of the record it links first.
StepName == CHOOSE n \in todo : n \notin todo'
StepNum == ScanChallengeNum(StepName).num
StepRecord == GetPage(challengeDB, TeamProperties[StepName].relation[1]).Properties

\* Some property whose name reads as position N links a record that was
\* fetched and carries a numeric id.
FetchedAt(N) ==
    \E name \in DOMAIN TeamProperties :
        /\ ScanChallengeNum(name).ok
        /\ ScanChallengeNum(name).num = N
        /\ Contributes(name)

\* The team record's fetch is the first store call of getTeamChallenges.
TeamFetchFailed == Len(storeLog) > 0 /\ ~storeLog[1].ok

\* What getTeamChallenges returns: StoreError exactly when the fetch of the
\* team record failed, and then no mapping; otherwise a mapping whose every
\* key is a position at which a fetch succeeded.
ExtractReturn ==
    pc = "challengesReturned" =>
        /\ extractErr <=> TeamFetchFailed
        /\ extractErr => challenges = NoChallenges
        /\ \A N \in DOMAIN challenges : FetchedAt(N)

\* A failed fetch of a challenge record changes neither the mapping nor the
\* error, and the range goes on.
FailedFetchSkipped ==
    (FetchStep /\ ~FetchOK) =>
        (challenges' = challenges /\ extractErr' = extractErr /\ pc' = pc)

\* A successful fetch of a record with a numeric id puts its position into
\* the mapping, and no iteration removes a key.
FetchedPresent ==
    /\ (FetchStep /\ FetchOK /\ HasNumericID(StepRecord)) =>
           StepNum \in DOMAIN challenges'
    /\ pc = "rangeProperties" => DOMAIN challenges \subseteq DOMAIN challenges'

PositionFound ==
    pc \in {"nextPos", "queryId", "queryID", "urlReturned", "panic", "done"}
SuccessorChosen ==
    pc \in {"queryId", "queryID", "urlReturned", "panic", "done"}

\* What the run that iterates the mapping by ascending position selects.
AscendingPos ==
    IF PositionsOf(currentChallengeID) = {} THEN 0
    ELSE CHOOSE p \in PositionsOf(currentChallengeID) :
             \A q \in PositionsOf(currentChallengeID) : p <= q
SuccessorAt(p) ==
    IF p + 1 \in DOMAIN challenges THEN challenges[p + 1] ELSE <<>>

\* Every run selects the position and the successor identifier that the
\* ascending run selects.
SameAsAscending ==
    /\ PositionFound => currentPos = AscendingPos
    /\ SuccessorChosen => nextID = SuccessorAt(AscendingPos)

\* C12 as stated: for every mapping getTeamChallenges produces and every
\* current id, runs that iterate the mapping in different orders select the
\* same current position and the same successor identifier.
C12_OrderIndependent == SameAsAscending

\* C12 amended: when the mapping stores the current id at no more than one
\* position, runs that iterate the mapping in different orders select the
\* same current position and the same successor identifier.
C12_OrderIndependentIfUnique ==
    Cardinality(PositionsOf(currentChallengeID)) <= 1 => SameAsAscending

\* C12 witness: the extracted mapping has positions 1 and 2 with different
\* ids; the run compared position 2 first, found the current id at position
\* 1 and selected the identifier at position 2.
C12_Witness ==
    /\ pc = "queryId"
    /\ DOMAIN challenges = {1, 2}
    /\ PositionsOf(currentChallengeID) = {1}
    /\ visited = {2}
    /\ currentPos = 1
    /\ nextID = challenges[2]

(***************************************************************************)
(* Claim about the iteration order of the team record's properties,        *)
(* checked under SpecExtract.                                              *)
(***************************************************************************)
\* One iteration of the range for the property name, every fetch succeeding.
ExtractOne(ch, name) ==
    IF IsChallengeRelation(name, TeamProperties[name])
    THEN FetchChallenge(ch, ScanChallengeNum(name).num,
                        TeamProperties[name].relation[1], TRUE)
    ELSE ch

\* The mapping of the run that iterates the names in one fixed order.
RECURSIVE ExtractInOrder(_, _)
ExtractInOrder(names, ch) ==
    IF names = {} THEN ch
    ELSE LET name == CHOOSE n \in names : TRUE
         IN ExtractInOrder(names \ {name}, ExtractOne(ch, name))

\* No store call of the run failed.
AllFetchesOK == \A i \in 1..Len(storeLog) : storeLog[i].ok

\* C13: the mapping getTeamChallenges returns is determined by the store
\* alone: when no fetch fails, every run, in whatever order it iterates the
\* team record's properties, returns the mapping that the run in one fixed
\* order returns, also when several property names read as the same position.
C13_ExtractOrderIndependent ==
    (pc = "challengesReturned" /\ AllFetchesOK) =>
        challenges = ExtractInOrder(DOMAIN TeamProperties, NoChallenges)

====
